---- MODULE Spec2Model ----
(***************************************************************************)
(* Verification model of the three primitives of the groupcache core:      *)
(*   - singleflight.Group   (request coalescing, Group.Do)                 *)
(*   - lru.Cache            (bounded recency cache)                        *)
(*   - consistenthash.Map   (hash ring)                                    *)
(* Each primitive has its own specification (SpecSF, SpecLRU, SpecRing)    *)
(* over its own variables; the variables of the other two stay unchanged.  *)
(***************************************************************************)
EXTENDS Integers, Sequences, FiniteSets, TLC

VARIABLES
    \* ---- singleflight.Group -------------------------------------------
    mu,         \* Group.mu: 0 when free, else the goroutine holding it
    gmNil,      \* Group.m == nil (before the lazy make)
    gm,         \* Group.m: function from the registered keys to call ids
    calls,      \* the call structs allocated so far: [wg, val, err]
    pc,         \* position of each goroutine inside Do
    dkey,       \* the key argument of each goroutine's current Do
    dc,         \* the local c of each goroutine's current Do (0: none)
    ret,        \* what each goroutine's last Do returned: <<val, err>>
    nDo,        \* number of Do invocations started so far
    \* history of the Group (observations only, never read by the code)
    ran,        \* whether the goroutine's current or last Do executed its fn
    fnRuns,     \* per call id: number of executions of fn for that call
    fnOut,      \* per call id: the (value, error) pairs fn produced for it
    callKey,    \* per call id: the key the call was registered under
    entered,    \* per goroutine: the call registered for its key when its Do
                \* acquired g.mu at line 39 (0: none was registered)
    enteredDone,\* per goroutine: that call's wg counter was already zero then
    \* ---- lru.Cache -----------------------------------------------------
    maxEntries, \* Cache.MaxEntries
    onEvicted,  \* Cache.OnEvicted != nil
    cacheNil,   \* Cache.cache == nil (and Cache.ll == nil), as Clear leaves it
    ll,         \* Cache.ll: the list's elements (ids), front first
    elems,      \* the *entry held by each element of the list: [key, value]
    cache,      \* Cache.cache: function from the cached keys to elements
    evicted,    \* the calls OnEvicted received so far: <<key, value>> each
    \* history of the Cache (observations only, never read by the code)
    nOps,       \* number of method calls made so far
    lastOp,     \* the last method call: its name, arguments and results (res,
                \* ok), whether key was cached (had) and Len() before and after
    inserted,   \* number of Adds that inserted a key that was not cached
    lastUse,    \* per cached key: nOps of its most recent successful Get or Add
    \* ---- consistenthash.Map -------------------------------------------
    replicas,   \* Map.replicas
    hashMul,    \* which hash function Map.hash is (see Hash)
    keys,       \* Map.keys: the points of the ring
    hashMap,    \* Map.hashMap: function from points to node ids
    \* history of the Map (observations only, never read by the code)
    nAdds,      \* number of Add calls made so far
    lastAdd,    \* the ids given to the last Add call
    added,      \* the ids given to the Add calls before the last one
    prevGet,    \* Get(k) for every key k, as of just before the last Add
    lastGet     \* the last Get call since the last Add: [key, node]

sfVars == <<mu, gmNil, gm, calls, pc, dkey, dc, ret, nDo, ran, fnRuns, fnOut,
            callKey, entered, enteredDone>>

lruVars == <<maxEntries, onEvicted, cacheNil, ll, elems, cache, evicted,
             nOps, lastOp, inserted, lastUse>>

ringVars == <<replicas, hashMul, keys, hashMap, nAdds, lastAdd, added, prevGet,
              lastGet>>

vars == <<sfVars, lruVars, ringVars>>

\* ---------------------------------------------------------------------
\* Bounds of the model
\* ---------------------------------------------------------------------
NProcs == 3
MaxDo == 3
MaxCap == 2
MaxOps == 5
MaxReplicas == 2
MaxAdds == 2
HashSpace == 6

Procs == 1..NProcs
SFKeys == {"k1", "k2"}
Nil == "nil"
\* the (value, error) pairs a caller-supplied fn may produce
FnOutcomes == {<<"bar", Nil>>, <<Nil, "someErr">>}

\* ---------------------------------------------------------------------
\* singleflight.Group
\* Positions of a goroutine inside Do (the line it executes next):
\*   idle -> hit -> wait -> idle                       (duplicate path)
\*   idle -> miss -> fn -> done61 -> lock63 -> unl65 -> idle (originator)
\* The statements executed while holding g.mu between two positions are
\* one step each: nothing else can touch g.m while the mutex is held.
\* ---------------------------------------------------------------------
NewCall == [wg |-> 0, val |-> Nil, err |-> Nil]

InitSF ==
    /\ mu = 0
    /\ gmNil = TRUE
    /\ gm = <<>>
    /\ calls = <<>>
    /\ pc = [p \in Procs |-> "idle"]
    /\ dkey = [p \in Procs |-> "k1"]
    /\ dc = [p \in Procs |-> 0]
    /\ ret = [p \in Procs |-> <<Nil, Nil>>]
    /\ nDo = 0
    /\ ran = [p \in Procs |-> FALSE]
    /\ fnRuns = <<>>
    /\ fnOut = <<>>
    /\ callKey = <<>>
    /\ entered = [p \in Procs |-> 0]
    /\ enteredDone = [p \in Procs |-> FALSE]

\* a Lock that never blocks (the mutex left out)
MutexFree_NoExclusion == TRUE

\* sync.Mutex.Lock: blocks until the mutex is free
MutexFree == mu = 0

\* a delete that is forgotten
MapDelete_Forgotten(map, k) == map

\* delete(g.m, key)
MapDelete(map, k) == [x \in (DOMAIN map) \ {k} |-> map[x]]

\* g.m[key] = c
MapStore(map, k, v) == [x \in (DOMAIN map) \cup {k} |-> IF x = k THEN v ELSE map[x]]

\* a lookup that ignores the key: any call in flight is taken as a duplicate
MapLookup_AnyKey(map, k) ==
    IF DOMAIN map # {} THEN map[CHOOSE x \in DOMAIN map : TRUE] ELSE 0

\* c, ok := g.m[key]: the call found, 0 when !ok
MapLookup(map, k) == IF k \in DOMAIN map THEN map[k] ELSE 0

\* lines 39-47: g.mu.Lock() of a new Do(key, fn), the lazy make of g.m and
\* the lookup c, ok := g.m[key]
DoLock(p, k) ==
    /\ pc[p] = "idle"
    /\ nDo < MaxDo
    /\ MutexFree
    /\ mu' = p
    /\ gmNil' = FALSE
    /\ pc' = [pc EXCEPT ![p] = IF MapLookup(gm, k) # 0 THEN "hit" ELSE "miss"]
    /\ dkey' = [dkey EXCEPT ![p] = k]
    /\ dc' = [dc EXCEPT ![p] = MapLookup(gm, k)]
    /\ nDo' = nDo + 1
    /\ ran' = [ran EXCEPT ![p] = FALSE]
    /\ ret' = [ret EXCEPT ![p] = <<Nil, Nil>>]
    /\ entered' = [entered EXCEPT ![p] = IF k \in DOMAIN gm THEN gm[k] ELSE 0]
    /\ enteredDone' = [enteredDone EXCEPT
                         ![p] = k \in DOMAIN gm /\ calls[gm[k]].wg = 0]
    /\ UNCHANGED <<gm, calls, fnRuns, fnOut, callKey>>
    /\ UNCHANGED <<lruVars, ringVars>>

\* line 48: g.mu.Unlock() on the duplicate path
HitUnlock(p) ==
    /\ pc[p] = "hit"
    /\ mu' = IF mu = p THEN 0 ELSE mu
    /\ pc' = [pc EXCEPT ![p] = "wait"]
    /\ UNCHANGED <<gmNil, gm, calls, dkey, dc, ret, nDo, ran, fnRuns, fnOut,
                   callKey, entered, enteredDone>>
    /\ UNCHANGED <<lruVars, ringVars>>

\* a Wait that returns at once
WaitGroupOpen_NoWait(c) == TRUE

\* sync.WaitGroup.Wait returns once the counter is zero
WaitGroupOpen(c) == c.wg = 0

\* lines 49-50: c.wg.Wait(); return c.val, c.err
WaitReturn(p) ==
    /\ pc[p] = "wait"
    /\ WaitGroupOpen(calls[dc[p]])
    /\ ret' = [ret EXCEPT ![p] = <<calls[dc[p]].val, calls[dc[p]].err>>]
    /\ pc' = [pc EXCEPT ![p] = "idle"]
    /\ UNCHANGED <<mu, gmNil, gm, calls, dkey, dc, nDo, ran, fnRuns, fnOut,
                   callKey, entered, enteredDone>>
    /\ UNCHANGED <<lruVars, ringVars>>

\* an Unlock deferred to the end of Do: g.mu stays held while fn runs
UnlockBeforeFn_Deferred(p) == mu

\* line 57: g.mu.Unlock(), before fn is called: the holder of g.mu afterwards
UnlockBeforeFn(p) == IF mu = p THEN 0 ELSE mu

\* lines 54-57: c := new(call); c.wg.Add(1); g.m[key] = c; g.mu.Unlock()
Register(p) ==
    /\ pc[p] = "miss"
    /\ LET id == Len(calls) + 1 IN
         /\ calls' = Append(calls, [NewCall EXCEPT !.wg = 1])
         /\ fnRuns' = Append(fnRuns, 0)
         /\ fnOut' = Append(fnOut, {})
         /\ callKey' = Append(callKey, dkey[p])
         /\ dc' = [dc EXCEPT ![p] = id]
         /\ gm' = MapStore(gm, dkey[p], id)
    /\ mu' = UnlockBeforeFn(p)
    /\ pc' = [pc EXCEPT ![p] = "fn"]
    /\ UNCHANGED <<gmNil, dkey, ret, nDo, ran, entered, enteredDone>>
    /\ UNCHANGED <<lruVars, ringVars>>

\* a store that wraps fn's error and drops the value next to it
StoreResult_Wrapped(c, out) ==
    [c EXCEPT !.val = IF out[2] # Nil THEN Nil ELSE out[1],
              !.err = IF out[2] # Nil THEN "wrapped" ELSE Nil]

\* the call struct after c.val, c.err = fn() with fn producing out
StoreResult(c, out) == [c EXCEPT !.val = out[1], !.err = out[2]]

\* line 60: c.val, c.err = fn(); fn produces any outcome, after any delay
CallFn(p, out) ==
    /\ pc[p] = "fn"
    /\ calls' = [calls EXCEPT ![dc[p]] = StoreResult(@, out)]
    /\ ran' = [ran EXCEPT ![p] = TRUE]
    /\ fnRuns' = [fnRuns EXCEPT ![dc[p]] = @ + 1]
    /\ fnOut' = [fnOut EXCEPT ![dc[p]] = @ \cup {out}]
    /\ pc' = [pc EXCEPT ![p] = "done61"]
    /\ UNCHANGED <<mu, gmNil, gm, dkey, dc, ret, nDo, callKey, entered,
                   enteredDone>>
    /\ UNCHANGED <<lruVars, ringVars>>

\* a Done that is forgotten: the counter stays at one
WaitGroupDone_Forgotten(c) == c

\* sync.WaitGroup.Done: the counter goes down by one
WaitGroupDone(c) == [c EXCEPT !.wg = @ - 1]

\* line 61: c.wg.Done()
WgDone(p) ==
    /\ pc[p] = "done61"
    /\ calls' = [calls EXCEPT ![dc[p]] = WaitGroupDone(@)]
    /\ pc' = [pc EXCEPT ![p] = "lock63"]
    /\ UNCHANGED <<mu, gmNil, gm, dkey, dc, ret, nDo, ran, fnRuns, fnOut,
                   callKey, entered, enteredDone>>
    /\ UNCHANGED <<lruVars, ringVars>>

\* lines 63-64: g.mu.Lock(); delete(g.m, key)
LockDelete(p) ==
    /\ pc[p] = "lock63"
    /\ MutexFree
    /\ mu' = p
    /\ gm' = MapDelete(gm, dkey[p])
    /\ pc' = [pc EXCEPT ![p] = "unl65"]
    /\ UNCHANGED <<gmNil, calls, dkey, dc, ret, nDo, ran, fnRuns, fnOut,
                   callKey, entered, enteredDone>>
    /\ UNCHANGED <<lruVars, ringVars>>

\* lines 65-67: g.mu.Unlock(); return c.val, c.err
UnlockReturn(p) ==
    /\ pc[p] = "unl65"
    /\ mu' = IF mu = p THEN 0 ELSE mu
    /\ ret' = [ret EXCEPT ![p] = <<calls[dc[p]].val, calls[dc[p]].err>>]
    /\ pc' = [pc EXCEPT ![p] = "idle"]
    /\ UNCHANGED <<gmNil, gm, calls, dkey, dc, nDo, ran, fnRuns, fnOut,
                   callKey, entered, enteredDone>>
    /\ UNCHANGED <<lruVars, ringVars>>

NextSF ==
    \/ \E p \in Procs, k \in SFKeys : DoLock(p, k)
    \/ \E p \in Procs : HitUnlock(p)
    \/ \E p \in Procs : WaitReturn(p)
    \/ \E p \in Procs : Register(p)
    \/ \E p \in Procs, out \in FnOutcomes : CallFn(p, out)
    \/ \E p \in Procs : WgDone(p)
    \/ \E p \in Procs : LockDelete(p)
    \/ \E p \in Procs : UnlockReturn(p)


\* ---------------------------------------------------------------------
\* lru.Cache
\* The methods are operators on the Cache's fields, gathered in a record
\* [nil, ll, elems, cache, evicted]; each action is one whole method call.
\* ---------------------------------------------------------------------
LRUKeys == {"a", "b", "c"}
LRUValues == {"x", "y"}

NoOp == [op |-> "none", key |-> Nil, value |-> Nil, res |-> Nil, ok |-> FALSE,
         had |-> FALSE, before |-> 0, len |-> 0]

\* New(maxEntries), and OnEvicted set (cb) or left nil
LRUNew(max, cb) ==
    /\ maxEntries = max
    /\ onEvicted = cb
    /\ cacheNil = FALSE
    /\ ll = <<>>
    /\ elems = <<>>
    /\ cache = <<>>
    /\ evicted = <<>>
    /\ nOps = 0
    /\ lastOp = NoOp
    /\ inserted = 0
    /\ lastUse = <<>>

\* New accepts any int; OnEvicted is set once after New, or never
InitLRU == \E max \in -1..MaxCap, cb \in BOOLEAN : LRUNew(max, cb)

\* the Cache's fields as one value
CacheState == [nil |-> cacheNil, ll |-> ll, elems |-> elems, cache |-> cache,
               evicted |-> evicted]

Range(f) == {f[x] : x \in DOMAIN f}

\* a new list.Element: any id not in use
NewElement(c) == CHOOSE e \in 1..(Len(c.ll) + 1) : e \notin Range(c.ll)

\* list.List.Remove(e)
ListRemove(l, e) == SelectSeq(l, LAMBDA x : x # e)

\* list.List.PushFront
ListPushFront(l, e) == <<e>> \o l

\* a MoveToFront that is left out: a use does not refresh the entry
ListMoveToFront_Forgotten(l, e) == l

\* list.List.MoveToFront(e): no change unless e is in the list
ListMoveToFront(l, e) ==
    IF e \in Range(l) THEN <<e>> \o ListRemove(l, e) ELSE l

\* list.List.Back(): the last element, 0 for nil
ListBack(l) == IF Len(l) = 0 THEN 0 ELSE l[Len(l)]

\* if c.cache == nil { c.cache = make(...); c.ll = list.New() }
MakeIfNil(c) ==
    IF c.nil THEN [c EXCEPT !.nil = FALSE, !.ll = <<>>, !.elems = <<>>,
                            !.cache = <<>>]
             ELSE c

\* OnEvicted(kv.key, kv.value), if c.OnEvicted != nil
CallOnEvicted(c, kv) ==
    IF onEvicted THEN [c EXCEPT !.evicted = Append(@, <<kv.key, kv.value>>)]
                 ELSE c

\* a removeElement that leaves the key in the map
removeElement_KeepsMapEntry(c, e) ==
    CallOnEvicted([c EXCEPT !.ll = ListRemove(c.ll, e)], c.elems[e])

\* a removeElement that does not call OnEvicted
removeElement_NoCallback(c, e) ==
    LET kv == c.elems[e] IN
    [c EXCEPT !.ll = ListRemove(c.ll, e),
              !.elems = [x \in (DOMAIN c.elems) \ {e} |-> c.elems[x]],
              !.cache = [k \in (DOMAIN c.cache) \ {kv.key} |-> c.cache[k]]]

\* Cache.removeElement(e)
removeElement(c, e) ==
    LET kv == c.elems[e]
        c1 == [c EXCEPT !.ll = ListRemove(c.ll, e),
                        !.elems = [x \in (DOMAIN c.elems) \ {e} |-> c.elems[x]],
                        !.cache = [k \in (DOMAIN c.cache) \ {kv.key} |-> c.cache[k]]]
    IN  CallOnEvicted(c1, kv)

\* Cache.RemoveOldest()
RemoveOldest(c) ==
    IF c.nil THEN c
    ELSE LET ele == ListBack(c.ll) IN
         IF ele # 0 THEN removeElement(c, ele) ELSE c

\* a capacity test that is off by one
OverCapacity_OffByOne(n, max) == max # 0 /\ n > max + 1

\* c.MaxEntries != 0 && c.ll.Len() > c.MaxEntries
OverCapacity(n, max) == max # 0 /\ n > max

\* an Add that reports the value it overwrites to OnEvicted
Add_ReportsOverwritten(c0, key, value) ==
    LET c == MakeIfNil(c0) IN
    IF key \in DOMAIN c.cache
       THEN LET ee == c.cache[key] IN
            CallOnEvicted([c EXCEPT !.ll = ListMoveToFront(c.ll, ee),
                                    !.elems = [c.elems EXCEPT ![ee].value = value]],
                          c.elems[ee])
       ELSE LET ele == NewElement(c)
                c1 == [c EXCEPT
                         !.ll = ListPushFront(c.ll, ele),
                         !.elems = [x \in (DOMAIN c.elems) \cup {ele} |->
                                      IF x = ele THEN [key |-> key, value |-> value]
                                                 ELSE c.elems[x]],
                         !.cache = [k \in (DOMAIN c.cache) \cup {key} |->
                                      IF k = key THEN ele ELSE c.cache[k]]]
            IN  IF OverCapacity(Len(c1.ll), maxEntries)
                   THEN RemoveOldest(c1) ELSE c1

\* Cache.Add(key, value)
Add(c0, key, value) ==
    LET c == MakeIfNil(c0) IN
    IF key \in DOMAIN c.cache
       THEN LET ee == c.cache[key] IN
            [c EXCEPT !.ll = ListMoveToFront(c.ll, ee),
                      !.elems = [c.elems EXCEPT ![ee].value = value]]
       ELSE LET ele == NewElement(c)
                c1 == [c EXCEPT
                         !.ll = ListPushFront(c.ll, ele),
                         !.elems = [x \in (DOMAIN c.elems) \cup {ele} |->
                                      IF x = ele THEN [key |-> key, value |-> value]
                                                 ELSE c.elems[x]],
                         !.cache = [k \in (DOMAIN c.cache) \cup {key} |->
                                      IF k = key THEN ele ELSE c.cache[k]]]
            IN  IF OverCapacity(Len(c1.ll), maxEntries)
                   THEN RemoveOldest(c1) ELSE c1

\* a Get that does not refresh the entry it returns
Get_NoRefresh(c, key) == c

\* Cache.Get(key): the Cache afterwards
Get(c, key) ==
    IF c.nil THEN c
    ELSE IF key \in DOMAIN c.cache
            THEN [c EXCEPT !.ll = ListMoveToFront(c.ll, c.cache[key])]
            ELSE c

\* Cache.Get(key): the results (value, ok)
GetResult(c, key) ==
    IF ~c.nil /\ key \in DOMAIN c.cache
       THEN <<c.elems[c.cache[key]].value, TRUE>>
       ELSE <<Nil, FALSE>>

\* a Remove that calls OnEvicted also for a key that is not cached
Remove_ReportsAbsent(c, key) ==
    IF ~c.nil /\ key \in DOMAIN c.cache
       THEN removeElement(c, c.cache[key])
       ELSE CallOnEvicted(c, [key |-> key, value |-> Nil])

\* Cache.Remove(key)
Remove(c, key) ==
    IF c.nil THEN c
    ELSE IF key \in DOMAIN c.cache THEN removeElement(c, c.cache[key]) ELSE c

\* Cache.Len()
LenOf(c) == IF c.nil THEN 0 ELSE Len(c.ll)

\* the orders in which range c.cache may visit the keys of the map
RangeOrders(m) ==
    {o \in [1..Cardinality(DOMAIN m) -> DOMAIN m] :
        \A i, j \in DOMAIN o : i # j => o[i] # o[j]}

RECURSIVE EvictAll(_, _, _)
\* the loop of Clear over c.cache, visiting the keys in the order o from i on
EvictAll(c, o, i) ==
    IF i > Len(o) THEN c
    ELSE EvictAll(CallOnEvicted(c, c.elems[c.cache[o[i]]]), o, i + 1)

\* a Clear that drops the entries without calling OnEvicted
Clear_NoCallback(c, o) ==
    [c EXCEPT !.nil = TRUE, !.ll = <<>>, !.elems = <<>>, !.cache = <<>>]

\* Cache.Clear(), the map's iteration visiting the keys in the order o
Clear(c, o) ==
    LET c1 == IF onEvicted THEN EvictAll(c, o, 1) ELSE c
    IN  [c1 EXCEPT !.nil = TRUE, !.ll = <<>>, !.elems = <<>>, !.cache = <<>>]

\* the Cache's fields become those of c
SetCache(c) ==
    /\ cacheNil' = c.nil
    /\ ll' = c.ll
    /\ elems' = c.elems
    /\ cache' = c.cache
    /\ evicted' = c.evicted

\* lastUse of the keys still cached in c, key k (if any) used by this call
Touch(c, k) ==
    [x \in DOMAIN c.cache |->
        IF x = k \/ x \notin DOMAIN lastUse THEN nOps + 1 ELSE lastUse[x]]

Called(name, k, v, res, c) ==
    /\ nOps' = nOps + 1
    /\ lastOp' = [op |-> name, key |-> k, value |-> v, res |-> res[1],
                  ok |-> res[2], had |-> (~cacheNil /\ k \in DOMAIN cache),
                  before |-> LenOf(CacheState), len |-> LenOf(c)]

DoAdd(k, v) ==
    /\ nOps < MaxOps
    /\ LET c == Add(CacheState, k, v) IN
         /\ SetCache(c)
         /\ Called("Add", k, v, <<Nil, FALSE>>, c)
         /\ inserted' = IF k \in DOMAIN cache THEN inserted ELSE inserted + 1
         /\ lastUse' = Touch(c, k)
    /\ UNCHANGED <<maxEntries, onEvicted>>
    /\ UNCHANGED <<sfVars, ringVars>>

DoGet(k) ==
    /\ nOps < MaxOps
    /\ LET c == Get(CacheState, k) IN
         /\ SetCache(c)
         /\ Called("Get", k, Nil, GetResult(CacheState, k), c)
         /\ lastUse' = IF k \in DOMAIN cache THEN Touch(c, k) ELSE Touch(c, Nil)
    /\ UNCHANGED <<maxEntries, onEvicted, inserted>>
    /\ UNCHANGED <<sfVars, ringVars>>

DoRemove(k) ==
    /\ nOps < MaxOps
    /\ LET c == Remove(CacheState, k) IN
         /\ SetCache(c)
         /\ Called("Remove", k, Nil, <<Nil, FALSE>>, c)
         /\ lastUse' = Touch(c, Nil)
    /\ UNCHANGED <<maxEntries, onEvicted, inserted>>
    /\ UNCHANGED <<sfVars, ringVars>>

DoRemoveOldest ==
    /\ nOps < MaxOps
    /\ LET c == RemoveOldest(CacheState) IN
         /\ SetCache(c)
         /\ Called("RemoveOldest", Nil, Nil, <<Nil, FALSE>>, c)
         /\ lastUse' = Touch(c, Nil)
    /\ UNCHANGED <<maxEntries, onEvicted, inserted>>
    /\ UNCHANGED <<sfVars, ringVars>>

DoClear ==
    /\ nOps < MaxOps
    /\ \E o \in RangeOrders(cache) :
         LET c == Clear(CacheState, o) IN
           /\ SetCache(c)
           /\ Called("Clear", Nil, Nil, <<Nil, FALSE>>, c)
           /\ lastUse' = Touch(c, Nil)
    /\ UNCHANGED <<maxEntries, onEvicted, inserted>>
    /\ UNCHANGED <<sfVars, ringVars>>

NextLRU ==
    \/ \E k \in LRUKeys, v \in LRUValues : DoAdd(k, v)
    \/ \E k \in LRUKeys : DoGet(k)
    \/ \E k \in LRUKeys : DoRemove(k)
    \/ DoRemoveOldest
    \/ DoClear


\* ---------------------------------------------------------------------
\* consistenthash.Map
\* Strings are sequences of bytes. Map.hash is pluggable (type Hash): the
\* model draws it from a family of checksums folded over the bytes, with
\* results in 0..HashSpace-1, small enough for points to collide.
\* ---------------------------------------------------------------------
\* the ids given to Add: any strings, the empty string among them
NodeIds == {<<>>, <<97>>, <<98>>}
LookupKeys == {<<c>> : c \in 107..(107 + HashSpace - 1)}
HashMuls == {1, 5}
EmptyString == <<>>

RECURSIVE HashFrom(_, _, _, _)
HashFrom(mul, s, i, h) ==
    IF i > Len(s) THEN h
    ELSE HashFrom(mul, s, i + 1, (h * mul + s[i]) % HashSpace)

\* m.hash(data), for the hash function selected by mul
Hash(mul, s) == HashFrom(mul, s, 1, 0)

RECURSIVE Itoa(_)
\* strconv.Itoa(i) for i >= 0: the decimal digits, as bytes
Itoa(i) == IF i < 10 THEN <<48 + i>> ELSE Itoa(i \div 10) \o <<48 + (i % 10)>>

\* int(m.hash(...)): uint32 to int, 64 bits wide
ToInt(h) == h

RECURSIVE InsertSorted(_, _)
InsertSorted(s, x) ==
    IF s = <<>> THEN <<x>>
    ELSE IF x <= Head(s) THEN <<x>> \o s
    ELSE <<Head(s)>> \o InsertSorted(Tail(s), x)

RECURSIVE SortFrom(_, _, _)
SortFrom(s, i, acc) ==
    IF i > Len(s) THEN acc ELSE SortFrom(s, i + 1, InsertSorted(acc, s[i]))

\* a sort that is left out
SortInts_Forgotten(s) == s

\* sort.Ints(a): a in ascending order
SortInts(s) == SortFrom(s, 1, <<>>)

\* an IsEmpty that takes a ring of one point for empty
IsEmpty_OneNode(ks) == Len(ks) <= 1

\* Map.IsEmpty()
IsEmpty(ks) == Len(ks) = 0

\* the ring [keys, hashMap] as one value
Ring == [keys |-> keys, hashMap |-> hashMap]

RECURSIVE AddReplicas(_, _, _)
\* the inner loop of Add for one id, from replica i on
AddReplicas(r, id, i) ==
    IF i >= replicas THEN r
    ELSE LET hash == ToInt(Hash(hashMul, Itoa(i) \o id)) IN
         AddReplicas([keys |-> Append(r.keys, hash),
                      hashMap |-> [h \in (DOMAIN r.hashMap) \cup {hash} |->
                                     IF h = hash THEN id ELSE r.hashMap[h]]],
                     id, i + 1)

RECURSIVE AddIds(_, _, _)
\* the outer loop of Add over the ids, from the j-th on
AddIds(r, ids, j) ==
    IF j > Len(ids) THEN r ELSE AddIds(AddReplicas(r, ids[j], 0), ids, j + 1)

\* Map.Add(keys...): the ring afterwards
MapAdd(r, ids) ==
    LET r1 == AddIds(r, ids, 1) IN [r1 EXCEPT !.keys = SortInts(r1.keys)]

\* a search for the first point strictly after the hash
AtOrAfter_Strict(point, hash) == point > hash

\* func(i int) bool { return m.keys[i] >= hash }
AtOrAfter(point, hash) == point >= hash

RECURSIVE SearchFrom(_, _, _, _)
\* the loop of sort.Search on [i, j), indices from 0
SearchFrom(ks, hash, i, j) ==
    IF i < j
       THEN LET h == (i + j) \div 2 IN
            IF ~AtOrAfter(ks[h + 1], hash) THEN SearchFrom(ks, hash, h + 1, j)
                                           ELSE SearchFrom(ks, hash, i, h)
       ELSE i

\* sort.Search(len(m.keys), func(i int) bool { return m.keys[i] >= hash })
Search(ks, hash) == SearchFrom(ks, hash, 0, Len(ks))

\* a lookup by modulo hashing: the hash indexes the points directly
MapGet_Modulo(r, key) ==
    IF IsEmpty(r.keys) THEN EmptyString
    ELSE r.hashMap[r.keys[(ToInt(Hash(hashMul, key)) % Len(r.keys)) + 1]]

\* Map.Get(key) on the ring r
MapGet(r, key) ==
    IF IsEmpty(r.keys) THEN EmptyString
    ELSE LET hash == ToInt(Hash(hashMul, key))
             found == Search(r.keys, hash)
             idx == IF found = Len(r.keys) THEN 0 ELSE found
         IN  r.hashMap[r.keys[idx + 1]]

\* New(replicas, fn)
RingNew(r, mul) ==
    /\ replicas = r
    /\ hashMul = mul
    /\ keys = <<>>
    /\ hashMap = <<>>
    /\ nAdds = 0
    /\ lastAdd = <<>>
    /\ added = {}
    /\ prevGet = [k \in LookupKeys |-> EmptyString]
    /\ lastGet = [key |-> EmptyString, node |-> EmptyString]

InitRing == \E r \in 0..MaxReplicas, mul \in HashMuls : RingNew(r, mul)

\* the argument lists of an Add call: no, one or two ids
IdLists == {<<>>} \cup {<<x>> : x \in NodeIds}
              \cup {<<x, y>> : x \in NodeIds, y \in NodeIds}

DoMapAdd(ids) ==
    /\ nAdds < MaxAdds
    /\ LET r == MapAdd(Ring, ids) IN
         /\ keys' = r.keys
         /\ hashMap' = r.hashMap
    /\ nAdds' = nAdds + 1
    /\ lastAdd' = ids
    /\ added' = added \cup Range(lastAdd)
    /\ prevGet' = [k \in LookupKeys |-> MapGet(Ring, k)]
    /\ lastGet' = [key |-> EmptyString, node |-> EmptyString]
    /\ UNCHANGED <<replicas, hashMul>>
    /\ UNCHANGED <<sfVars, lruVars>>

DoMapGet(key) ==
    /\ lastGet' = [key |-> key, node |-> MapGet(Ring, key)]
    /\ UNCHANGED <<replicas, hashMul, keys, hashMap, nAdds, lastAdd, added,
                   prevGet>>
    /\ UNCHANGED <<sfVars, lruVars>>

NextRing ==
    \/ \E ids \in IdLists : DoMapAdd(ids)
    \/ \E key \in LookupKeys : DoMapGet(key)

\* ---------------------------------------------------------------------
\* Specifications: one per primitive, the other two freshly constructed
\* ---------------------------------------------------------------------
\* the Group under test; a Cache and a Map freshly constructed beside it
InitGroup == InitSF /\ LRUNew(0, FALSE) /\ RingNew(1, 1)

SpecSF == InitGroup /\ [][NextSF]_vars

\* the next step of goroutine p inside Do, whichever it is; fn returns with
\* one of its outcomes
Advance(p) ==
    \/ HitUnlock(p)
    \/ WaitReturn(p)
    \/ Register(p)
    \/ \E out \in FnOutcomes : CallFn(p, out)
    \/ WgDone(p)
    \/ LockDelete(p)
    \/ UnlockReturn(p)

\* Fair scheduling of the goroutines inside Do: a goroutine that can take
\* its next step eventually takes it, and every fn that was called returns.
\* Nothing obliges a caller to start a Do (DoLock is not fair).
FairSF == \A p \in Procs : WF_vars(Advance(p))

SpecSFFair == InitGroup /\ [][NextSF]_vars /\ FairSF

\* the Cache under test; a zero Group and a fresh Map beside it
InitCache == InitLRU /\ InitSF /\ RingNew(1, 1)

SpecLRU == InitCache /\ [][NextLRU]_vars

\* the Map under test; a zero Group and a fresh Cache beside it
InitMap == InitRing /\ InitSF /\ LRUNew(0, FALSE)

SpecRing == InitMap /\ [][NextRing]_vars

\* ---------------------------------------------------------------------
\* Properties of singleflight.Group (checked under SpecSF)
\* ---------------------------------------------------------------------
Originating == {"fn", "done61", "lock63"}
Returned(p) == pc[p] = "idle" /\ dc[p] # 0

\* C1: a caller that enters Do while a call for its key is registered joins
\* that call and never runs fn; fn runs at most once per call, exactly once
\* by the time anyone returns from it; every caller returning from a call,
\* originator or waiter, returns the one pair that execution produced.
C1_Coalescing ==
    /\ \A i \in DOMAIN calls : fnRuns[i] <= 1
    /\ \A p \in Procs :
         /\ entered[p] # 0 => ~ran[p] /\ dc[p] = entered[p]
         /\ Returned(p) => fnRuns[dc[p]] = 1 /\ fnOut[dc[p]] = {ret[p]}
    /\ \A p, q \in Procs :
         Returned(p) /\ Returned(q) /\ dc[p] = dc[q] => ret[p] = ret[q]

\* C1 witness: all goroutines called Do for one key, shared one call whose
\* fn ran once, and returned its value.
C1_Witness ==
    /\ \A p \in Procs : Returned(p) /\ dc[p] = 1 /\ ret[p] = <<"bar", Nil>>
    /\ Cardinality({p \in Procs : ran[p]}) = 1
    /\ fnRuns[1] = 1

\* C2 (as stated): no call whose completion signal has fired is still
\* registered in the map, so a Do that acquires the lock after a call's
\* completion never joins that call: it runs its own fn.
C2_RemovedAtomicallyWithCompletion ==
    /\ \A k \in DOMAIN gm : calls[gm[k]].wg > 0
    /\ \A p \in Procs : ~enteredDone[p]

\* C2 (amended): a completed call is registered only while its originator
\* is between c.wg.Done() and the delete under the lock; a Do that acquires
\* the lock in that window returns the completed call's result without
\* running fn, and one that acquires it with no call registered runs its
\* own fn on a call no one else executed.
C2_RemovedAfterCompletion ==
    /\ \A k \in DOMAIN gm :
         calls[gm[k]].wg = 0 =>
            \E p \in Procs : pc[p] = "lock63" /\ dc[p] = gm[k] /\ ran[p]
    /\ \A p \in Procs :
         /\ enteredDone[p] => entered[p] # 0 /\ ~ran[p]
         /\ enteredDone[p] /\ Returned(p) =>
               dc[p] = entered[p] /\ fnOut[dc[p]] = {ret[p]}
         /\ entered[p] = 0 /\ Returned(p) => ran[p] /\ fnRuns[dc[p]] = 1

\* C2 witness: a Do that started after the call's completion signal had
\* fired found the call still registered and returned its stored result,
\* while the originator has not yet deleted the call.
C2_Witness ==
    \E p, q \in Procs :
        /\ p # q
        /\ enteredDone[p] /\ Returned(p) /\ ~ran[p]
        /\ pc[q] = "lock63" /\ dc[q] = dc[p]
        /\ ret[p] = <<calls[dc[q]].val, calls[dc[q]].err>>
        /\ dkey[p] \in DOMAIN gm /\ gm[dkey[p]] = dc[p]

\* C3: per key at most one call is live and at most one fn is executing:
\* every originator between registering and deleting is the one registered
\* under its key, so the delete removes its own call only, and every
\* registered call has exactly one such originator.
C3_OneLiveCallPerKey ==
    /\ \A p \in Procs :
         pc[p] \in Originating =>
            dkey[p] \in DOMAIN gm /\ gm[dkey[p]] = dc[p]
    /\ \A k \in SFKeys :
         /\ Cardinality({p \in Procs : pc[p] = "fn" /\ dkey[p] = k}) <= 1
         /\ Cardinality({i \in DOMAIN calls :
                            callKey[i] = k /\ calls[i].wg > 0}) <= 1
         /\ k \in DOMAIN gm =>
               Cardinality({p \in Procs : pc[p] \in Originating
                                          /\ dc[p] = gm[k]}) = 1

\* C3 witness: fn is executing for both keys at once while a third caller
\* waits on one of the two calls.
C3_Witness ==
    /\ DOMAIN gm = SFKeys
    /\ \E p, q, r \in Procs :
         /\ pc[p] = "fn" /\ pc[q] = "fn" /\ dkey[p] # dkey[q]
         /\ pc[r] = "wait" /\ dc[r] = dc[p]

\* C9: whoever returns from a call returns a pair fn produced for that
\* call: the same error with the same value; the group adds no error.
C9_VerbatimOutcome ==
    \A p \in Procs :
        Returned(p) =>
           /\ ret[p] \in fnOut[dc[p]]
           /\ ret[p] \in FnOutcomes

\* C9 witness: fn failed; the originator and a waiter both returned that
\* error with a nil value.
C9_Witness ==
    \E p, q \in Procs :
        /\ p # q /\ Returned(p) /\ Returned(q) /\ dc[p] = dc[q]
        /\ ran[p] /\ ~ran[q]
        /\ ret[p] = <<Nil, "someErr">> /\ ret[q] = <<Nil, "someErr">>

\* C10: a Do that acquired the lock with no call registered for its key
\* takes the originating path, runs its own fn exactly once and returns what
\* that run produced, whatever earlier calls for the key ended with.
C10_FreshExecution ==
    \A p \in Procs :
        entered[p] = 0 =>
           /\ pc[p] \in {"idle", "miss", "unl65"} \cup Originating
           /\ pc[p] \in {"done61", "lock63", "unl65"} =>
                 ran[p] /\ fnRuns[dc[p]] = 1
           /\ Returned(p) =>
                 ran[p] /\ fnRuns[dc[p]] = 1 /\ fnOut[dc[p]] = {ret[p]}

\* C10 witness: an earlier call for the key ended with an error and was
\* removed; a later Do for the same key ran fn again and returned a value.
C10_Witness ==
    \E p \in Procs, i, j \in DOMAIN calls :
        /\ i < j /\ callKey[i] = callKey[j]
        /\ fnOut[i] = {<<Nil, "someErr">>}
        /\ Returned(p) /\ dc[p] = j /\ entered[p] = 0 /\ ran[p]
        /\ ret[p] = <<"bar", Nil>>

\* ---------------------------------------------------------------------
\* Properties of lru.Cache (checked under SpecLRU)
\* ---------------------------------------------------------------------
\* the (key, value) entries of the cache, through the map
Entries == {<<k, elems[cache[k]].value>> : k \in DOMAIN cache}

\* the key whose most recent successful Get or Add is the oldest
LeastRecentlyUsed ==
    CHOOSE k \in DOMAIN cache : \A j \in DOMAIN cache : lastUse[k] <= lastUse[j]

\* C4: with a capacity C > 0, Len() never exceeds C.
C4_LenWithinCapacity ==
    maxEntries > 0 => LenOf(CacheState) <= maxEntries

\* C4 witness: an Add of a new key to a cache holding C = 2 entries has
\* just returned, and Len() is still 2.
C4_Witness ==
    /\ maxEntries = 2
    /\ lastOp.op = "Add" /\ ~lastOp.had /\ lastOp.before = 2
    /\ LenOf(CacheState) = 2

\* C5: with a capacity C > 0, an Add of a key that is not cached to a cache
\* holding C entries evicts exactly the least recently used entry: the new
\* key and every other entry are cached afterwards, with their values, and
\* OnEvicted (if set) is called once, with the evicted entry.
C5_EvictsLeastRecentlyUsed ==
    [][ ( /\ maxEntries > 0
          /\ LenOf(CacheState) = maxEntries
          /\ nOps' = nOps + 1
          /\ lastOp'.op = "Add"
          /\ lastOp'.key \notin DOMAIN cache )
        => LET victim == LeastRecentlyUsed
               k == lastOp'.key
           IN  /\ DOMAIN cache' = ((DOMAIN cache) \ {victim}) \cup {k}
               /\ elems'[cache'[k]].value = lastOp'.value
               /\ \A j \in (DOMAIN cache) \ {victim} :
                     elems'[cache'[j]].value = elems[cache[j]].value
               /\ Len(ll') = maxEntries
               /\ evicted' = IF onEvicted
                                THEN Append(evicted,
                                            <<victim, elems[cache[victim]].value>>)
                                ELSE evicted ]_vars

\* C5 witness: capacity 2; "a" and "b" were added, "a" was used again at
\* the third call, and the Add of "c" at the fourth evicted "b".
C5_Witness ==
    /\ maxEntries = 2 /\ onEvicted
    /\ nOps = 4 /\ inserted = 3
    /\ lastOp.op = "Add" /\ lastOp.key = "c" /\ lastOp.before = 2
    /\ DOMAIN cache = {"a", "c"}
    /\ lastUse["a"] = 3
    /\ Len(evicted) = 1 /\ evicted[1][1] = "b"

\* C8: with OnEvicted set, every method call makes exactly one callback for
\* each entry that leaves the cache during the call, with the entry's key
\* and latest value, and none for an entry that stays; so the number of
\* insertions of new keys is always the number of callbacks plus Len().
C8_EvictionCallback ==
    /\ [](onEvicted => inserted = Len(evicted) + LenOf(CacheState))
    /\ [][ onEvicted /\ nOps' = nOps + 1
           => LET held == IF lastOp'.op = "Add"
                             THEN {e \in Entries : e[1] # lastOp'.key}
                                     \cup {<<lastOp'.key, lastOp'.value>>}
                             ELSE Entries
                  gone == held \ Entries'
                  n == Len(evicted)
              IN  /\ Len(evicted') = n + Cardinality(gone)
                  /\ SubSeq(evicted', 1, n) = evicted
                  /\ {evicted'[i] : i \in (n + 1)..Len(evicted')} = gone
                  /\ Entries' \subseteq held ]_vars

\* C8 witness: three keys were inserted into a cache of capacity 2, one
\* entry was evicted for capacity, and Clear has just reported the other two.
C8_Witness ==
    /\ onEvicted /\ maxEntries = 2
    /\ lastOp.op = "Clear" /\ lastOp.before = 2
    /\ inserted = 3 /\ Len(evicted) = 3
    /\ LenOf(CacheState) = 0

\* ---------------------------------------------------------------------
\* Properties of consistenthash.Map (checked under SpecRing)
\* ---------------------------------------------------------------------
Points == Range(keys)
Least(S) == CHOOSE x \in S : \A y \in S : x <= y

\* the point that owns hash h: the smallest point >= h, else the smallest
Successor(h) ==
    IF \E p \in Points : p >= h THEN Least({p \in Points : p >= h})
                                ELSE Least(Points)

C7_MinimalRemapping ==
    (nAdds > 0 /\ Len(lastAdd) = 1 /\ lastAdd[1] \notin added) =>
        \A k \in LookupKeys : MapGet(Ring, k) \in {prevGet[k], lastAdd[1]}

\* C7 witness: a third node was added to a ring of two; one key moved to
\* it from another node and one key stayed where it was.
C7_Witness ==
    /\ nAdds = 2 /\ Len(lastAdd) = 1 /\ lastAdd[1] \notin added
    /\ Cardinality(added) = 2
    /\ \E k \in LookupKeys :
          MapGet(Ring, k) = lastAdd[1] /\ prevGet[k] \in added
    /\ \E k \in LookupKeys :
          MapGet(Ring, k) = prevGet[k] /\ prevGet[k] \in added

\* ---------------------------------------------------------------------
\* Further properties of singleflight.Group
\* ---------------------------------------------------------------------
\* C11: g.mu is never held by a goroutine whose fn is running: it is held
\* only inside the short sections around the map, and a waiting caller
\* waits on a call registered under its own key.
C11_LockNotHeldDuringFn ==
    /\ \A p \in Procs : pc[p] = "fn" => mu # p
    /\ mu # 0 => pc[mu] \in {"hit", "miss", "unl65"}
    /\ \A q \in Procs : pc[q] = "wait" => callKey[dc[q]] = dkey[q]

\* C11 witness: fn of the Do for one key is still running while a Do for
\* the other key, registered after it, has run its own fn and returned.
C11_Witness ==
    \E p, q \in Procs :
        /\ pc[p] = "fn" /\ mu = 0
        /\ Returned(q) /\ ran[q] /\ dkey[q] # dkey[p]
        /\ dc[q] > dc[p]
        /\ ret[q] = <<"bar", Nil>>

\* C20: under fair scheduling, with every fn returning, all callers of Do
\* eventually have returned for good, whoever waits on a call is woken
\* once its fn has completed, and when all callers have returned the map
\* holds no call.
C20_EveryCallerReturns ==
    /\ \A p \in Procs : (pc[p] # "idle") ~> (pc[p] = "idle")
    /\ []((\A p \in Procs : pc[p] = "idle") => DOMAIN gm = {})

\* C20 witness: all Do calls were made and have returned, one of them as a
\* waiter woken by the call's completion, and the map is empty.
C20_Witness ==
    /\ nDo = MaxDo
    /\ \A p \in Procs : pc[p] = "idle"
    /\ \E p \in Procs : Returned(p) /\ ~ran[p] /\ entered[p] # 0
    /\ DOMAIN gm = {}

\* ---------------------------------------------------------------------
\* Further properties of lru.Cache
\* ---------------------------------------------------------------------
\* the list without element e: the relative order of the other entries
Others(l, e) == SelectSeq(l, LAMBDA x : x # e)

\* C12: a Get(k) that immediately follows an Add(k, v) returns (v, true),
\* whatever MaxEntries the cache was constructed with.
C12_RoundTrip ==
    [][ ( /\ nOps' = nOps + 1
          /\ lastOp.op = "Add"
          /\ lastOp'.op = "Get"
          /\ lastOp'.key = lastOp.key )
        => lastOp'.res = lastOp.value /\ lastOp'.ok ]_vars

\* C13: Clear calls OnEvicted (if set) exactly once for each entry cached
\* just before it and for nothing else, and leaves the cache empty: Len()
\* is 0 and a Get of any key misses.
C13_ClearCompleteness ==
    [][ (nOps' = nOps + 1 /\ lastOp'.op = "Clear")
        => LET n == Len(evicted) IN
           /\ IF onEvicted
                 THEN /\ Len(evicted') = n + Cardinality(Entries)
                      /\ SubSeq(evicted', 1, n) = evicted
                      /\ {evicted'[i] : i \in (n + 1)..Len(evicted')} = Entries
                 ELSE evicted' = evicted
           /\ LenOf(CacheState') = 0
           /\ \A k \in LRUKeys : GetResult(CacheState', k) = <<Nil, FALSE>> ]_vars

\* C13 witness: Clear was called on a cache of two entries, none of which
\* had left before, and OnEvicted has received exactly these two.
C13_Witness ==
    /\ onEvicted
    /\ lastOp.op = "Clear" /\ lastOp.before = 2
    /\ inserted = 2 /\ Len(evicted) = 2 /\ evicted[1][1] # evicted[2][1]
    /\ LenOf(CacheState) = 0

\* C15: the keys of the map are the keys of the entries in the list, every
\* key is in the list once, at the element the map gives for it, and Len()
\* is the number of keys in the map.
C15_MapMatchesList ==
    /\ DOMAIN cache = {elems[e].key : e \in Range(ll)}
    /\ \A i, j \in DOMAIN ll :
         i # j => ll[i] # ll[j] /\ elems[ll[i]].key # elems[ll[j]].key
    /\ \A k \in DOMAIN cache : cache[k] \in Range(ll) /\ elems[cache[k]].key = k
    /\ LenOf(CacheState) = Cardinality(DOMAIN cache)

\* C15 witness: a Remove of a cached key has just left two keys cached.
C15_Witness ==
    /\ lastOp.op = "Remove" /\ lastOp.had /\ lastOp.before = 3
    /\ Cardinality(DOMAIN cache) = 2 /\ Len(ll) = 2

\* C17: an Add(k, v) of a cached key sets k's value to v and moves k to the
\* front; the keys, Len(), every other value and the order of the other
\* entries stay as they were, and OnEvicted is not called.
C17_AddExistingFrame ==
    [][ ( /\ nOps' = nOps + 1
          /\ lastOp'.op = "Add"
          /\ lastOp'.key \in DOMAIN cache )
        => LET k == lastOp'.key
               e == cache[k]
           IN  /\ cache' = cache
               /\ elems'[e] = [key |-> k, value |-> lastOp'.value]
               /\ \A x \in (DOMAIN elems) \ {e} : elems'[x] = elems[x]
               /\ DOMAIN elems' = DOMAIN elems
               /\ ll'[1] = e
               /\ Others(ll', e) = Others(ll, e)
               /\ Len(ll') = Len(ll)
               /\ evicted' = evicted ]_vars

\* C17 witness: with OnEvicted set and the cache at its capacity of 2, an Add
\* of the cached key used least recently has replaced its value and moved
\* it to the front; nothing was evicted.
C17_Witness ==
    /\ onEvicted /\ maxEntries = 2
    /\ lastOp.op = "Add" /\ lastOp.had /\ lastOp.before = 2 /\ lastOp.len = 2
    /\ nOps = 3 /\ inserted = 2
    /\ elems[ll[1]] = [key |-> lastOp.key, value |-> "y"]
    /\ lastUse[elems[ll[2]].key] = 2
    /\ evicted = <<>>

\* C18: a Get(k) of a cached key returns k's value and true and only moves
\* k to the front: the map, every entry and the order of the other entries
\* stay as they were, and OnEvicted is not called.
C18_GetHitFrame ==
    [][ ( /\ nOps' = nOps + 1
          /\ lastOp'.op = "Get"
          /\ lastOp'.key \in DOMAIN cache )
        => LET e == cache[lastOp'.key] IN
           /\ lastOp'.res = elems[e].value /\ lastOp'.ok
           /\ cache' = cache
           /\ elems' = elems
           /\ ll'[1] = e
           /\ Others(ll', e) = Others(ll, e)
           /\ Len(ll') = Len(ll)
           /\ evicted' = evicted ]_vars

\* C18 witness: a Get hit the entry at the back of a list of three and
\* moved it to the front.
C18_Witness ==
    /\ lastOp.op = "Get" /\ lastOp.ok /\ lastOp.res = "y"
    /\ nOps = 4 /\ inserted = 3 /\ Len(ll) = 3
    /\ elems[ll[1]].key = lastOp.key
    /\ lastUse[lastOp.key] = 4
    /\ lastUse[elems[ll[2]].key] = 3 /\ lastUse[elems[ll[3]].key] = 2

\* C19: a Get or a Remove of a key that is not cached and a RemoveOldest on
\* an empty cache change nothing and call nothing; the Get returns
\* (nil, false).
C19_AbsentNoOp ==
    [][ ( /\ nOps' = nOps + 1
          /\ \/ lastOp'.op \in {"Get", "Remove"} /\ lastOp'.key \notin DOMAIN cache
             \/ lastOp'.op = "RemoveOldest" /\ LenOf(CacheState) = 0 )
        => /\ UNCHANGED <<cacheNil, ll, elems, cache, evicted>>
           /\ lastOp'.res = Nil /\ ~lastOp'.ok
           /\ lastOp'.len = lastOp'.before ]_vars

\* C19 witness: after a Clear of a non-empty cache, with OnEvicted set, a
\* RemoveOldest on the cleared cache has returned and nothing has changed.
C19_Witness ==
    /\ onEvicted /\ cacheNil
    /\ lastOp.op = "RemoveOldest" /\ lastOp.before = 0
    /\ inserted = 1 /\ Len(evicted) = 1 /\ nOps = 3

\* ---------------------------------------------------------------------
\* Further properties of consistenthash.Map
\* ---------------------------------------------------------------------
\* every id given to an Add so far
AddedIds == added \cup Range(lastAdd)

\* the (replica, id) pairs whose points are on the ring
Replicated == (0..(replicas - 1)) \X AddedIds

\* the point of a (replica, id) pair
PointOf(pr) == ToInt(Hash(hashMul, Itoa(pr[1]) \o pr[2]))

\* C14 as stated: Get returns the empty string exactly when the ring is
\* empty; with replicas >= 1 and an id added the ring is not empty and Get
\* returns an added id.
C14_EmptyExactlyWhenRingEmpty ==
    /\ \A k \in LookupKeys : (MapGet(Ring, k) = EmptyString) <=> IsEmpty(keys)
    /\ (replicas >= 1 /\ AddedIds # {}) =>
           /\ ~IsEmpty(keys)
           /\ \A k \in LookupKeys : MapGet(Ring, k) \in AddedIds

\* C14: on an empty ring Get returns the empty string; with replicas >= 1
\* and an id added the ring is not empty; on a ring that is not empty Get
\* returns an added id, so it returns the empty string only if the empty
\* string was added as an id.
C14_Membership ==
    /\ IsEmpty(keys) <=> keys = <<>>
    /\ IsEmpty(keys) => \A k \in LookupKeys : MapGet(Ring, k) = EmptyString
    /\ (replicas >= 1 /\ AddedIds # {}) => ~IsEmpty(keys)
    /\ ~IsEmpty(keys) => \A k \in LookupKeys : MapGet(Ring, k) \in AddedIds
    /\ \A k \in LookupKeys :
         MapGet(Ring, k) = EmptyString => IsEmpty(keys) \/ EmptyString \in AddedIds
    /\ lastGet.key # EmptyString =>
         IF IsEmpty(keys) THEN lastGet.node = EmptyString
                          ELSE lastGet.node \in AddedIds

\* C14 witness: the empty string and another id were added; the ring is not
\* empty, the last Get returned the empty string and another key is on the
\* other id.
C14_Witness ==
    /\ replicas >= 1 /\ ~IsEmpty(keys)
    /\ EmptyString \in AddedIds /\ Cardinality(AddedIds) = 2
    /\ lastGet.key # EmptyString /\ lastGet.node = EmptyString
    /\ \E k \in LookupKeys : MapGet(Ring, k) # EmptyString

\* C16: the points are in ascending order and the keys of the point->node
\* map are the points of the sequence, whatever was added, colliding points
\* and repeated ids included; every replica of every added id is a point.
C16_SortedAndConsistent ==
    /\ \A i \in 1..(Len(keys) - 1) : keys[i] <= keys[i + 1]
    /\ DOMAIN hashMap = Range(keys)
    /\ Range(keys) = {PointOf(pr) : pr \in Replicated}
    /\ Range(hashMap) \subseteq AddedIds

\* C16 witness: after two Adds, the second of an id that the first had
\* added, two replicas of different ids share a point, the sequence holds
\* that point more than once, and there are points on both sides of it.
C16_Witness ==
    /\ nAdds = 2 /\ lastAdd # <<>> /\ lastAdd[1] \in added
    /\ \E pr, qr \in Replicated :
          /\ pr[2] # qr[2] /\ PointOf(pr) = PointOf(qr)
          /\ \E i \in 1..(Len(keys) - 1) :
                keys[i] = PointOf(pr) /\ keys[i + 1] = PointOf(pr)
          /\ keys[1] < PointOf(pr) /\ PointOf(pr) < keys[Len(keys)]

====
